---- MODULE Spec2Model ----
(***************************************************************************)
(* Model of librustc/middle/traits/error_reporting.rs: the reporting of    *)
(* trait fulfillment errors.  The session (tcx.sess) is an append-only     *)
(* list of diagnostics with an error count; the inference context holds    *)
(* the type-variable bindings and the set reported_trait_errors.           *)
(***************************************************************************)
EXTENDS Naturals, Sequences, FiniteSets, TLC

VARIABLES
    sess,                   \* tcx.sess: [diags, err_count, aborted]
    reported_trait_errors,  \* infcx.reported_trait_errors: set of TraitErrorKey
    bindings,               \* infcx: type variable -> type it is unified with
    tcx,                    \* tcx: attributes, generics and object-safety violations per trait
    last,                   \* the call that ran last: its entry point, input and effect
    rendered,               \* the failures handed to a report function, in order
    nOps                    \* number of failures and overflows handled so far

vars == <<sess, reported_trait_errors, bindings, tcx, last, rendered, nOps>>

(***************************************************************************)
(* Bounds of the model.                                                    *)
(***************************************************************************)
MaxOps == 2
MaxPieces == 3
MaxViolations == 3
MaxDepth == 3

(***************************************************************************)
(* Types, regions and predicates (middle::ty).                             *)
(***************************************************************************)
TInt == [c |-> "i32", r |-> "", v |-> 0]
TErr == [c |-> "err", r |-> "", v |-> 0]
TVec == [c |-> "vec", r |-> "", v |-> 0]
TVar(n) == [c |-> "var", r |-> "", v |-> n]
TRef(rg) == [c |-> "ref", r |-> rg, v |-> 0]
NoTy == [c |-> "none", r |-> "", v |-> 0]

ReStatic == "'static"
Regions == {ReStatic, "'a"}
TyVars == {1}

\* Display of a type
TyStr(ty) ==
    CASE ty.c = "i32" -> "i32"
      [] ty.c = "err" -> "[type error]"
      [] ty.c = "vec" -> "Vec<i32>"
      [] ty.c = "var" -> "_"
      [] ty.c = "ref" -> "&" \o ty.r \o " i32"
      [] OTHER -> ""

Pred(k, t, tys, rgns) == [kind |-> k, trait |-> t, tys |-> tys, rgns |-> rgns]
PTrait(t, tys) == Pred("Trait", t, tys, <<>>)
PEquate(a, b) == Pred("Equate", "", <<a, b>>, <<>>)
PRegionOutlives(a, b) == Pred("RegionOutlives", "", <<>>, <<a, b>>)
PTypeOutlives(ty, rg) == Pred("TypeOutlives", "", <<ty>>, <<rg>>)
PProjection(ty) == Pred("Projection", "Iter", <<ty>>, <<>>)
PWellFormed(ty) == Pred("WellFormed", "", <<ty>>, <<>>)
PObjectSafe(t) == Pred("ObjectSafe", t, <<>>, <<>>)

\* infcx.resolve_type_vars_if_possible on one type
resolve_ty(b, ty) ==
    IF ty.c = "var" /\ ty.v \in DOMAIN b THEN b[ty.v] ELSE ty

\* infcx.resolve_type_vars_if_possible on a predicate
resolve_type_vars_if_possible(b, p) ==
    [p EXCEPT !.tys = [i \in DOMAIN p.tys |-> resolve_ty(b, p.tys[i])]]

erase_ty(ty) == IF ty.c = "ref" THEN [ty EXCEPT !.r = ReStatic] ELSE ty

\* tcx.erase_regions on a predicate: every region becomes 'static
erase_regions(p) ==
    [p EXCEPT !.tys = [i \in DOMAIN p.tys |-> erase_ty(p.tys[i])],
              !.rgns = [i \in DOMAIN p.rgns |-> ReStatic]]

\* HasTypeFlags: some type of the sequence is the error type / an inference variable
references_error(tys) == \E i \in DOMAIN tys : tys[i].c = "err"
needs_infer(tys) == \E i \in DOMAIN tys : tys[i].c = "var"
self_ty(p) == p.tys[1]

(***************************************************************************)
(* Cause codes: the chain from the outermost code to the leaf.  RFC1214,   *)
(* BuiltinDerivedObligation and ImplDerivedObligation wrap the next code.  *)
(***************************************************************************)
Node(t) == [tag |-> t, ty |-> NoTy]
Derived(t, ty) == [tag |-> t, ty |-> ty]
Wrappers == {"RFC1214", "BuiltinDerivedObligation", "ImplDerivedObligation"}
Misc == <<Node("MiscObligation")>>
Compare == <<Node("CompareImplMethodObligation")>>

\* ObligationCauseCode::is_rfc1214
is_rfc1214(code) == \E i \in DOMAIN code : code[i].tag = "RFC1214"

\* is_warning(obligation)
is_warning(obligation) == is_rfc1214(obligation.cause.code)

(***************************************************************************)
(* The session: diagnostics, error count, abort.                           *)
(***************************************************************************)
Diag(sev, code, span, text, num) ==
    [sev |-> sev, code |-> code, span |-> span, text |-> text, num |-> num]

span_err(s, span, code, text) ==
    [s EXCEPT !.diags = Append(@, Diag("error", code, span, text, 0)),
              !.err_count = @ + 1]
span_warn(s, span, code, text) ==
    [s EXCEPT !.diags = Append(@, Diag("warning", code, span, text, 0))]
span_err_or_warn(w, s, span, code, text) ==
    IF w THEN span_warn(s, span, code, text) ELSE span_err(s, span, code, text)
fileline_note(s, span, code, text, num) ==
    [s EXCEPT !.diags = Append(@, Diag("note", code, span, text, num))]
span_bug(s, span, code) ==
    [s EXCEPT !.diags = Append(@, Diag("bug", code, span, "", 0)),
              !.aborted = TRUE]
has_errors(s) == s.err_count > 0
abort_if_errors(s) == IF has_errors(s) THEN [s EXCEPT !.aborted = TRUE] ELSE s

(***************************************************************************)
(* note_obligation_cause_code: the notes of a cause code, outermost first. *)
(***************************************************************************)
\* A variant of note_obligation_cause_code that does not go into the parent code of
\* an ImplDerivedObligation
RECURSIVE note_obligation_cause_code_shallow(_, _, _, _, _)
note_obligation_cause_code_shallow(s, b, cause_span, code, i) ==
    IF i > Len(code) THEN s
    ELSE LET n == code[i] IN
         CASE n.tag = "MiscObligation" -> s
           [] n.tag = "RFC1214" ->
                note_obligation_cause_code_shallow(
                    fileline_note(s, cause_span, "note_rfc_1214", "", 0),
                    b, cause_span, code, i + 1)
           [] n.tag = "BuiltinDerivedObligation" ->
                note_obligation_cause_code_shallow(
                    fileline_note(s, cause_span, n.tag, TyStr(resolve_ty(b, n.ty)), 0),
                    b, cause_span, code, i + 1)
           [] n.tag = "ImplDerivedObligation" ->
                fileline_note(s, cause_span, n.tag, TyStr(resolve_ty(b, n.ty)), 0)
           [] OTHER -> fileline_note(s, cause_span, n.tag, "", 0)

RECURSIVE note_obligation_cause_code(_, _, _, _, _)
note_obligation_cause_code(s, b, cause_span, code, i) ==
    IF i > Len(code) THEN s
    ELSE LET n == code[i] IN
         CASE n.tag = "MiscObligation" -> s
           [] n.tag = "RFC1214" ->
                note_obligation_cause_code(
                    fileline_note(s, cause_span, "note_rfc_1214", "", 0),
                    b, cause_span, code, i + 1)
           [] n.tag \in {"BuiltinDerivedObligation", "ImplDerivedObligation"} ->
                note_obligation_cause_code(
                    fileline_note(s, cause_span, n.tag, TyStr(resolve_ty(b, n.ty)), 0),
                    b, cause_span, code, i + 1)
           [] OTHER -> fileline_note(s, cause_span, n.tag, "", 0)

note_obligation_cause(s, b, obligation) ==
    note_obligation_cause_code(s, b, obligation.cause.span, obligation.cause.code, 1)

(***************************************************************************)
(* report_on_unimplemented: the #[rustc_on_unimplemented] note of a trait. *)
(***************************************************************************)
\* generic_map: the trait's generic parameter names, and "Self"
generic_map(t, trait_ref) ==
    LET names == t.generics[trait_ref.trait] IN
    [nm \in {names[i] : i \in DOMAIN names} \cup {"Self"} |->
        IF nm = "Self" THEN TyStr(self_ty(trait_ref))
        ELSE TyStr(trait_ref.tys[CHOOSE i \in DOMAIN names : names[i] = nm])]

\* Variants of filter_map_collect: one that puts the value of a parameter in front
\* of the text collected so far, and one that stops at the first bad piece
RECURSIVE filter_map_collect_front(_, _, _, _, _, _)
filter_map_collect_front(acc, pieces, gmap, err_sp, trait_str, i) ==
    IF i > Len(pieces) THEN acc
    ELSE LET p == pieces[i] IN
         LET nxt ==
               CASE p.kind = "String" -> [acc EXCEPT !.err = @ \o p.s]
                 [] p.kind = "ArgumentNamed" ->
                      IF p.s \in DOMAIN gmap
                      THEN [acc EXCEPT !.err = gmap[p.s] \o @]
                      ELSE [acc EXCEPT !.sess = span_err(@, err_sp, "E0272", p.s),
                                       !.errored = TRUE]
                 [] OTHER ->
                      [acc EXCEPT !.sess = span_err(@, err_sp, "E0273", trait_str),
                                  !.errored = TRUE]
         IN filter_map_collect_front(nxt, pieces, gmap, err_sp, trait_str, i + 1)
RECURSIVE filter_map_collect_stop(_, _, _, _, _, _)
filter_map_collect_stop(acc, pieces, gmap, err_sp, trait_str, i) ==
    IF i > Len(pieces) \/ acc.errored THEN acc
    ELSE LET p == pieces[i] IN
         LET nxt ==
               CASE p.kind = "String" -> [acc EXCEPT !.err = @ \o p.s]
                 [] p.kind = "ArgumentNamed" ->
                      IF p.s \in DOMAIN gmap
                      THEN [acc EXCEPT !.err = @ \o gmap[p.s]]
                      ELSE [acc EXCEPT !.sess = span_err(@, err_sp, "E0272", p.s),
                                       !.errored = TRUE]
                 [] OTHER ->
                      [acc EXCEPT !.sess = span_err(@, err_sp, "E0273", trait_str),
                                  !.errored = TRUE]
         IN filter_map_collect_stop(nxt, pieces, gmap, err_sp, trait_str, i + 1)

\* parser.filter_map(..).collect(): [sess, errored, err] after the pieces from i on
RECURSIVE filter_map_collect(_, _, _, _, _, _)
filter_map_collect(acc, pieces, gmap, err_sp, trait_str, i) ==
    IF i > Len(pieces) THEN acc
    ELSE LET p == pieces[i] IN
         LET nxt ==
               CASE p.kind = "String" -> [acc EXCEPT !.err = @ \o p.s]
                 [] p.kind = "ArgumentNamed" ->
                      IF p.s \in DOMAIN gmap
                      THEN [acc EXCEPT !.err = @ \o gmap[p.s]]
                      ELSE [acc EXCEPT !.sess = span_err(@, err_sp, "E0272", p.s),
                                       !.errored = TRUE]
                 [] OTHER ->
                      [acc EXCEPT !.sess = span_err(@, err_sp, "E0273", trait_str),
                                  !.errored = TRUE]
         IN filter_map_collect(nxt, pieces, gmap, err_sp, trait_str, i + 1)

report_on_unimplemented(s, t, trait_ref, span) ==
    LET attrs == t.attrs[trait_ref.trait] IN
    LET hits == {i \in DOMAIN attrs : attrs[i].name = "rustc_on_unimplemented"} IN
    IF hits = {} THEN [sess |-> s, report |-> <<>>]
    ELSE LET item == attrs[CHOOSE i \in hits : \A j \in hits : i <= j] IN
         LET err_sp == IF item.span = "dummy" THEN span ELSE item.span IN
         IF item.value # <<>>
         THEN LET r == filter_map_collect([sess |-> s, errored |-> FALSE, err |-> ""],
                                          item.value[1], generic_map(t, trait_ref),
                                          err_sp, trait_ref.trait, 1) IN
              [sess |-> r.sess, report |-> IF ~r.errored THEN <<r.err>> ELSE <<>>]
         ELSE [sess |-> span_err(s, err_sp, "E0274", trait_ref.trait), report |-> <<>>]

(***************************************************************************)
(* report_object_safety_error.                                             *)
(***************************************************************************)
violation_note(v) ==
    CASE v.kind = "SizedSelf" -> "the trait cannot require that 'Self : Sized'"
      [] v.kind = "SupertraitSelf" -> "the trait cannot use 'Self' as a type parameter"
      [] v.kind = "Method" /\ v.code = "StaticMethod" ->
            "method '" \o v.method \o "' has no receiver"
      [] v.kind = "Method" /\ v.code = "ReferencesSelf" ->
            "method '" \o v.method \o "' references the 'Self' type"
      [] OTHER -> "method '" \o v.method \o "' has generic type parameters"

\* A variant of note_violations that never looks into reported_violations
RECURSIVE note_violations_all(_, _, _, _, _)
note_violations_all(s, span, violations, reported_violations, i) ==
    IF i > Len(violations) THEN s
    ELSE note_violations_all(
             fileline_note(s, span, "violation", violation_note(violations[i]), 0),
             span, violations, reported_violations, i + 1)

RECURSIVE note_violations(_, _, _, _, _)
note_violations(s, span, violations, reported_violations, i) ==
    IF i > Len(violations) THEN s
    ELSE LET v == violations[i] IN
         IF v \in reported_violations
         THEN note_violations(s, span, violations, reported_violations, i + 1)
         ELSE note_violations(fileline_note(s, span, "violation", violation_note(v), 0),
                              span, violations, reported_violations \cup {v}, i + 1)

report_object_safety_error(s, span, trait_def_id, violations, w) ==
    note_violations(span_err_or_warn(w, s, span, "E0038", trait_def_id),
                    span, violations, {}, 1)

(***************************************************************************)
(* The report functions.  Each takes the session and returns it with the   *)
(* diagnostics of the failure appended.                                    *)
(***************************************************************************)
need_type_info(s, span, ty) == span_err(s, span, "E0282", TyStr(ty))

suggest_new_overflow_limit(s, span) ==
    fileline_note(s, span, "recursion_limit", "", s.recursion_limit * 2)

\* Variants of report_projection_error: one that always reports an error, and one
\* that leaves out the notes of the cause
report_projection_error_err(s, b, obligation) ==
    LET predicate == resolve_type_vars_if_possible(b, obligation.predicate) IN
    IF ~has_errors(s) \/ ~references_error(predicate.tys)
    THEN note_obligation_cause(span_err(s, obligation.cause.span, "E0271", ""),
                               b, obligation)
    ELSE s
report_projection_error_nonote(s, b, obligation) ==
    LET predicate == resolve_type_vars_if_possible(b, obligation.predicate) IN
    IF ~has_errors(s) \/ ~references_error(predicate.tys)
    THEN span_err_or_warn(is_warning(obligation), s, obligation.cause.span, "E0271", "")
    ELSE s

report_projection_error(s, b, obligation) ==
    LET predicate == resolve_type_vars_if_possible(b, obligation.predicate) IN
    IF ~has_errors(s) \/ ~references_error(predicate.tys)
    THEN note_obligation_cause(
            span_err_or_warn(is_warning(obligation), s, obligation.cause.span, "E0271", ""),
            b, obligation)
    ELSE s

\* A variant of the Predicate::Trait arm that looks for the error type in the self
\* type only
report_unimplemented_trait_self(s, b, t, obligation, w) ==
    LET trait_predicate == resolve_type_vars_if_possible(b, obligation.predicate) IN
    IF ~has_errors(s) \/ ~references_error(<<self_ty(trait_predicate)>>)
    THEN LET s1 == span_err_or_warn(w, s, obligation.cause.span, "E0277",
                                    TyStr(self_ty(trait_predicate))) IN
         LET custom_note == report_on_unimplemented(s1, t, trait_predicate,
                                                    obligation.cause.span) IN
         LET s2 == IF custom_note.report # <<>>
                   THEN fileline_note(custom_note.sess, obligation.cause.span,
                                      "custom", custom_note.report[1], 0)
                   ELSE custom_note.sess IN
         note_obligation_cause(s2, b, obligation)
    ELSE s

\* A variant of the Predicate::Trait arm that notes the cause only after a custom note
report_unimplemented_trait_hinted(s, b, t, obligation, w) ==
    LET trait_predicate == resolve_type_vars_if_possible(b, obligation.predicate) IN
    IF ~has_errors(s) \/ ~references_error(trait_predicate.tys)
    THEN LET s1 == span_err_or_warn(w, s, obligation.cause.span, "E0277",
                                    TyStr(self_ty(trait_predicate))) IN
         LET custom_note == report_on_unimplemented(s1, t, trait_predicate,
                                                    obligation.cause.span) IN
         IF custom_note.report # <<>>
         THEN note_obligation_cause(
                  fileline_note(custom_note.sess, obligation.cause.span,
                                "custom", custom_note.report[1], 0),
                  b, obligation)
         ELSE custom_note.sess
    ELSE s

\* The Predicate::Trait arm of report_selection_error
report_unimplemented_trait(s, b, t, obligation, w) ==
    LET trait_predicate == resolve_type_vars_if_possible(b, obligation.predicate) IN
    IF ~has_errors(s) \/ ~references_error(trait_predicate.tys)
    THEN LET s1 == span_err_or_warn(w, s, obligation.cause.span, "E0277",
                                    TyStr(self_ty(trait_predicate))) IN
         LET custom_note == report_on_unimplemented(s1, t, trait_predicate,
                                                    obligation.cause.span) IN
         LET s2 == IF custom_note.report # <<>>
                   THEN fileline_note(custom_note.sess, obligation.cause.span,
                                      "custom", custom_note.report[1], 0)
                   ELSE custom_note.sess IN
         note_obligation_cause(s2, b, obligation)
    ELSE s

report_selection_error(s, b, t, obligation, error) ==
    LET w == is_warning(obligation) IN
    LET span == obligation.cause.span IN
    CASE error.kind = "Unimplemented" ->
           IF obligation.cause.code[1].tag = "CompareImplMethodObligation"
           THEN span_err_or_warn(w, s, span, "E0276", "")
           ELSE CASE obligation.predicate.kind = "Trait" ->
                       report_unimplemented_trait(s, b, t, obligation, w)
                  [] obligation.predicate.kind = "Equate" ->
                       note_obligation_cause(span_err_or_warn(w, s, span, "E0278", ""),
                                             b, obligation)
                  [] obligation.predicate.kind = "RegionOutlives" ->
                       note_obligation_cause(span_err_or_warn(w, s, span, "E0279", ""),
                                             b, obligation)
                  [] obligation.predicate.kind \in {"Projection", "TypeOutlives"} ->
                       note_obligation_cause(span_err_or_warn(w, s, span, "E0280", ""),
                                             b, obligation)
                  [] obligation.predicate.kind = "ObjectSafe" ->
                       note_obligation_cause(
                           report_object_safety_error(
                               s, span, obligation.predicate.trait,
                               t.violations[obligation.predicate.trait], w),
                           b, obligation)
                  [] OTHER -> span_bug(s, span, "WF predicate not satisfied")
      [] error.kind = "OutputTypeParameterMismatch" ->
           IF ~references_error(<<resolve_ty(b, error.actual)>>)
           THEN note_obligation_cause(span_err_or_warn(w, s, span, "E0281", ""),
                                      b, obligation)
           ELSE s
      [] OTHER ->
           note_obligation_cause(
               report_object_safety_error(s, span, error.did, t.violations[error.did], w),
               b, obligation)

\* A variant of maybe_report_ambiguity that reports the failure of coherence whether
\* or not the session has errors
maybe_report_ambiguity_strict(s, b, t, obligation) ==
    LET predicate == resolve_type_vars_if_possible(b, obligation.predicate) IN
    LET span == obligation.cause.span IN
    CASE predicate.kind = "Trait" ->
           IF references_error(predicate.tys) THEN s
           ELSE IF needs_infer(predicate.tys)
           THEN IF ~has_errors(s)
                THEN IF t.sized_trait # <<>> /\ t.sized_trait[1] = predicate.trait
                     THEN need_type_info(s, span, self_ty(predicate))
                     ELSE note_obligation_cause(span_err(s, span, "E0283", ""),
                                                b, obligation)
                ELSE s
           ELSE span_bug(s, span, "coherence failed to report ambiguity")
      [] predicate.kind = "WellFormed" ->
           IF ~references_error(predicate.tys) /\ ~has_errors(s)
           THEN need_type_info(s, span, predicate.tys[1])
           ELSE s
      [] OTHER ->
           IF ~has_errors(s)
           THEN note_obligation_cause(span_err(s, span, "E0284", ""), b, obligation)
           ELSE s

\* A variant of maybe_report_ambiguity that asks has_errors only for trait predicates
maybe_report_ambiguity_noisy(s, b, t, obligation) ==
    LET predicate == resolve_type_vars_if_possible(b, obligation.predicate) IN
    LET span == obligation.cause.span IN
    CASE predicate.kind = "Trait" ->
           IF references_error(predicate.tys) THEN s
           ELSE IF needs_infer(predicate.tys)
           THEN IF ~has_errors(s)
                THEN IF t.sized_trait # <<>> /\ t.sized_trait[1] = predicate.trait
                     THEN need_type_info(s, span, self_ty(predicate))
                     ELSE note_obligation_cause(span_err(s, span, "E0283", ""),
                                                b, obligation)
                ELSE s
           ELSE IF ~has_errors(s)
           THEN span_bug(s, span, "coherence failed to report ambiguity")
           ELSE s
      [] predicate.kind = "WellFormed" ->
           IF ~references_error(predicate.tys)
           THEN need_type_info(s, span, predicate.tys[1])
           ELSE s
      [] OTHER -> note_obligation_cause(span_err(s, span, "E0284", ""), b, obligation)

maybe_report_ambiguity(s, b, t, obligation) ==
    LET predicate == resolve_type_vars_if_possible(b, obligation.predicate) IN
    LET span == obligation.cause.span IN
    CASE predicate.kind = "Trait" ->
           IF references_error(predicate.tys) THEN s
           ELSE IF needs_infer(predicate.tys)
           THEN IF ~has_errors(s)
                THEN IF t.sized_trait # <<>> /\ t.sized_trait[1] = predicate.trait
                     THEN need_type_info(s, span, self_ty(predicate))
                     ELSE note_obligation_cause(span_err(s, span, "E0283", ""),
                                                b, obligation)
                ELSE s
           ELSE IF ~has_errors(s)
           THEN span_bug(s, span, "coherence failed to report ambiguity")
           ELSE s
      [] predicate.kind = "WellFormed" ->
           IF ~references_error(predicate.tys) /\ ~has_errors(s)
           THEN need_type_info(s, span, predicate.tys[1])
           ELSE s
      [] OTHER ->
           IF ~has_errors(s)
           THEN note_obligation_cause(span_err(s, span, "E0284", ""), b, obligation)
           ELSE s

\* A variant of report_overflow_error that keeps quiet once the session has errors
report_overflow_error_masked(s, b, obligation) ==
    IF has_errors(s) THEN s
    ELSE [note_obligation_cause(
             suggest_new_overflow_limit(span_err(s, obligation.cause.span, "E0275", ""),
                                        obligation.cause.span),
             b, obligation) EXCEPT !.aborted = TRUE]

\* abort_if_errors never returns here (an error was just emitted); unreachable!() panics
report_overflow_error(s, b, obligation) ==
    LET s1 == span_err(s, obligation.cause.span, "E0275", "") IN
    LET s2 == suggest_new_overflow_limit(s1, obligation.cause.span) IN
    LET s3 == note_obligation_cause(s2, b, obligation) IN
    LET s4 == abort_if_errors(s3) IN
    [s4 EXCEPT !.aborted = TRUE]

(***************************************************************************)
(* The deduplication gate.                                                 *)
(***************************************************************************)
\* A variant of from_error that erases the regions before it resolves the variables
from_error_erase_first(b, e) ==
    [is_warning |-> is_warning(e.obligation),
     span |-> e.obligation.cause.span,
     predicate |-> resolve_type_vars_if_possible(b, erase_regions(e.obligation.predicate))]

\* A variant of from_error whose key also holds the kind of the failure
from_error_with_kind(b, e) ==
    LET predicate == resolve_type_vars_if_possible(b, e.obligation.predicate) IN
    [is_warning |-> is_warning(e.obligation),
     span |-> e.obligation.cause.span,
     predicate |-> erase_regions(predicate),
     kind |-> e.code]

\* TraitErrorKey::from_error
from_error(b, e) ==
    LET predicate == resolve_type_vars_if_possible(b, e.obligation.predicate) IN
    [is_warning |-> is_warning(e.obligation),
     span |-> e.obligation.cause.span,
     predicate |-> erase_regions(predicate)]

\* The match on error.code of report_fulfillment_error
dispatch(s, b, t, error) ==
    CASE error.code = "CodeSelectionError" ->
           report_selection_error(s, b, t, error.obligation, error.sel)
      [] error.code = "CodeProjectionError" ->
           report_projection_error(s, b, error.obligation)
      [] OTHER -> maybe_report_ambiguity(s, b, t, error.obligation)

\* Variants of report_fulfillment_error: one that reports whether or not the key was
\* new, and one that records the key only of a failure that produced a diagnostic
report_fulfillment_error_always(s, reported, b, t, error) ==
    [sess |-> dispatch(s, b, t, error),
     reported |-> reported \cup {from_error(b, error)},
     dispatched |-> TRUE]
report_fulfillment_error_unrecorded(s, reported, b, t, error) ==
    LET error_key == from_error(b, error) IN
    LET inserted == error_key \notin reported IN
    LET s1 == IF inserted THEN dispatch(s, b, t, error) ELSE s IN
    [sess |-> s1,
     reported |-> IF s1 # s THEN reported \cup {error_key} ELSE reported,
     dispatched |-> inserted]

\* report_fulfillment_error: the session and the key set after the failure, and
\* whether the failure was handed to its report function
report_fulfillment_error(s, reported, b, t, error) ==
    LET error_key == from_error(b, error) IN
    LET inserted == error_key \notin reported IN
    [sess |-> IF inserted THEN dispatch(s, b, t, error) ELSE s,
     reported |-> reported \cup {error_key},
     dispatched |-> inserted]

(***************************************************************************)
(* The compilation unit under check: its traits, and the failures the      *)
(* solver may hand over.                                                   *)
(***************************************************************************)
Piece(k, str) == [kind |-> k, s |-> str]
Attr(n, value, sp) == [name |-> n, value |-> value, span |-> sp]
OnUnimplemented(pieces) == Attr("rustc_on_unimplemented", <<pieces>>, "attr")
Violation(k, m, c) == [kind |-> k, method |-> m, code |-> c]

Traits == {"Sized", "Foo", "Bar", "Baz", "Obj"}

FooTemplate ==
    <<Piece("ArgumentNamed", "Self"), Piece("String", " does not implement Foo<"),
      Piece("ArgumentNamed", "T"), Piece("String", ">")>>
BarTemplate ==
    <<Piece("String", "no "), Piece("ArgumentNamed", "Bogus"), Piece("ArgumentNext", "")>>

Tcx0 ==
    [generics |-> [t \in Traits |-> IF t \in {"Foo", "Bar"} THEN <<"Self", "T">>
                                    ELSE <<"Self">>],
     attrs |-> [t \in Traits |->
                  CASE t = "Foo" -> <<Attr("doc", <<>>, "attr"), OnUnimplemented(FooTemplate)>>
                    [] t = "Bar" -> <<OnUnimplemented(BarTemplate)>>
                    [] t = "Baz" -> <<Attr("rustc_on_unimplemented", <<>>, "attr")>>
                    [] OTHER -> <<>>],
     violations |-> [t \in Traits |->
                  IF t = "Obj"
                  THEN <<Violation("Method", "m", "Generic"),
                         Violation("Method", "m", "Generic"),
                         Violation("SizedSelf", "", "")>>
                  ELSE <<>>],
     sized_trait |-> <<"Sized">>]

Spans == {"sp1", "sp2"}
RFC == <<Node("RFC1214"), Node("MiscObligation")>>
BuiltinItem == <<Derived("BuiltinDerivedObligation", TVar(1)), Node("ItemObligation")>>
ImplRFC == <<Derived("ImplDerivedObligation", TInt), Node("RFC1214"), Node("MiscObligation")>>
OtherCauses == {RFC, Compare, BuiltinItem, ImplRFC}

TraitPreds ==
    {PTrait("Sized", <<ty>>) : ty \in {TInt, TErr, TVar(1)}}
    \cup {PTrait("Foo", tys) : tys \in {<<TInt, TInt>>, <<TErr, TInt>>, <<TInt, TErr>>,
                                         <<TVar(1), TInt>>,
                                         <<TRef("'a"), TInt>>, <<TRef(ReStatic), TInt>>}}
    \cup {PTrait("Bar", <<TInt, TInt>>), PTrait("Baz", <<TInt>>)}
OtherPreds ==
    {PEquate(TInt, TRef("'a")), PRegionOutlives("'a", ReStatic),
     PRegionOutlives(ReStatic, "'a"), PTypeOutlives(TInt, "'a"), PObjectSafe("Obj")}
    \cup {PProjection(ty) : ty \in {TInt, TErr}}
    \cup {PWellFormed(ty) : ty \in {TErr, TVar(1)}}
AllPreds == TraitPreds \cup OtherPreds

Obligation(p, code, sp) == [predicate |-> p, cause |-> [span |-> sp, code |-> code]]
NoSel == [kind |-> "", actual |-> NoTy, did |-> ""]
Unimplemented(o) ==
    [code |-> "CodeSelectionError", obligation |-> o,
     sel |-> [kind |-> "Unimplemented", actual |-> NoTy, did |-> ""]]
Mismatch(o, actual) ==
    [code |-> "CodeSelectionError", obligation |-> o,
     sel |-> [kind |-> "OutputTypeParameterMismatch", actual |-> actual, did |-> ""]]
NotObjectSafe(o, did) ==
    [code |-> "CodeSelectionError", obligation |-> o,
     sel |-> [kind |-> "TraitNotObjectSafe", actual |-> NoTy, did |-> did]]
ProjectionError(o) == [code |-> "CodeProjectionError", obligation |-> o, sel |-> NoSel]
Ambiguity(o) == [code |-> "CodeAmbiguity", obligation |-> o, sel |-> NoSel]

\* The obligations that fail as unimplemented: every predicate shape with a plain
\* cause, and one predicate under every cause code and at a second span
UnimplementedObligations ==
    {Obligation(p, Misc, "sp1") : p \in AllPreds}
    \cup {Obligation(PTrait("Foo", <<TInt, TInt>>), c, "sp1") : c \in OtherCauses}
    \cup {Obligation(PTrait("Foo", <<TInt, TInt>>), Misc, "sp2"),
          Obligation(PTrait("Sized", <<TVar(1)>>), RFC, "sp1"),
          Obligation(PWellFormed(TVar(1)), Compare, "sp1")}

\* The obligations the solver could not decide
AmbiguousObligations ==
    {Obligation(p, Misc, "sp1") :
        p \in {PTrait("Sized", <<TInt>>), PTrait("Sized", <<TErr>>),
               PTrait("Sized", <<TVar(1)>>), PTrait("Foo", <<TVar(1), TInt>>),
               PWellFormed(TErr), PWellFormed(TVar(1)), PProjection(TInt)}}
    \cup {Obligation(PTrait("Sized", <<TVar(1)>>), c, "sp1") : c \in OtherCauses}
    \cup {Obligation(PTrait("Foo", <<TVar(1), TInt>>), c, "sp1") : c \in {RFC, BuiltinItem}}
    \cup {Obligation(PTrait("Sized", <<TVar(1)>>), Misc, "sp2")}

\* The failures the solver can hand over
Failures ==
    {Unimplemented(o) : o \in UnimplementedObligations}
    \cup {Ambiguity(o) : o \in AmbiguousObligations}
    \cup {ProjectionError(Obligation(PProjection(ty), Misc, "sp1")) : ty \in {TInt, TErr}}
    \cup {ProjectionError(Obligation(PProjection(TInt), RFC, "sp1"))}
    \cup {Mismatch(Obligation(PTrait("Foo", <<TInt, TInt>>), Misc, "sp1"), ty) :
             ty \in {TInt, TErr}}
    \cup {Mismatch(Obligation(PTrait("Foo", <<TInt, TInt>>), RFC, "sp1"), TInt)}
    \cup {NotObjectSafe(Obligation(PTrait("Foo", <<TInt, TInt>>), c, "sp1"), "Obj") :
             c \in {Misc, BuiltinItem}}

OverflowObligations ==
    {Obligation(p, c, "sp1") :
        p \in {PTrait("Foo", <<TInt, TInt>>), PTrait("Sized", <<TVar(1)>>)},
        c \in {Misc, RFC, BuiltinItem}}
RecursionLimits == {64, 100}

\* What the one type variable of the unit is unified with (<<>>: nothing yet)
Bindings == {<<>>, <<TInt>>, <<TErr>>, <<TRef("'a")>>}

(***************************************************************************)
(* The state machine.                                                      *)
(***************************************************************************)
Sess0(limit) ==
    [diags |-> <<>>, err_count |-> 0, aborted |-> FALSE, recursion_limit |-> limit]

NoCall == [op |-> "none", error |-> Ambiguity(Obligation(PObjectSafe("Obj"), Misc, "sp1")),
           from |-> 0, errs |-> 0, dispatched |-> FALSE]

Init ==
    /\ bindings \in Bindings
    /\ sess \in {Sess0(l) : l \in IF bindings = <<>> THEN RecursionLimits ELSE {64}}
    /\ reported_trait_errors = {}
    /\ tcx = Tcx0
    /\ last = NoCall
    /\ rendered = <<>>
    /\ nOps = 0

\* report_fulfillment_errors: one iteration of its loop over the vector of errors
\* (a call with n errors is n consecutive steps)
ReportFulfillmentErrors ==
    /\ ~sess.aborted
    /\ nOps < MaxOps
    /\ \E error \in Failures :
          LET r == report_fulfillment_error(sess, reported_trait_errors, bindings,
                                            tcx, error) IN
          /\ sess' = r.sess
          /\ reported_trait_errors' = r.reported
          /\ rendered' = IF r.dispatched THEN Append(rendered, error) ELSE rendered
          /\ last' = [op |-> "report_fulfillment_error", error |-> error,
                      from |-> Len(sess.diags), errs |-> sess.err_count,
                      dispatched |-> r.dispatched]
    /\ nOps' = nOps + 1
    /\ UNCHANGED <<bindings, tcx>>

\* The solver calls report_overflow_error
ReportOverflowError ==
    /\ ~sess.aborted
    /\ nOps < MaxOps
    /\ \E o \in OverflowObligations :
          /\ sess' = report_overflow_error(sess, bindings, o)
          /\ last' = [op |-> "report_overflow_error", error |-> Ambiguity(o),
                      from |-> Len(sess.diags), errs |-> sess.err_count,
                      dispatched |-> FALSE]
    /\ nOps' = nOps + 1
    /\ UNCHANGED <<reported_trait_errors, bindings, tcx, rendered>>

Next == ReportFulfillmentErrors \/ ReportOverflowError

Spec == Init /\ [][Next]_vars

(***************************************************************************)
(* The templates of rustc_on_unimplemented: a second specification, in     *)
(* which trait Foo carries any template of at most MaxPieces pieces and    *)
(* the failures are unimplemented obligations of Foo.                      *)
(***************************************************************************)
PieceAlphabet ==
    {Piece("String", " / "), Piece("ArgumentNamed", "Self"), Piece("ArgumentNamed", "T"),
     Piece("ArgumentNamed", "Bogus"), Piece("ArgumentNext", ""), Piece("ArgumentIs", "0")}
Templates ==
    UNION {[1..n -> PieceAlphabet] : n \in 0..MaxPieces} \cup {FooTemplate}
AttrSpans == {"attr", "dummy"}
TcxHint(pieces, sp) ==
    [Tcx0 EXCEPT !.attrs["Foo"] = <<Attr("rustc_on_unimplemented", <<pieces>>, sp)>>]
HintFailures ==
    {Unimplemented(Obligation(PTrait("Foo", tys), code, "sp1")) :
        tys \in {<<TVec, TInt>>, <<TInt, TVec>>}, code \in {Misc, BuiltinItem}}

InitHint ==
    /\ sess = Sess0(64)
    /\ reported_trait_errors = {}
    /\ bindings = <<>>
    /\ tcx \in {TcxHint(pieces, sp) : pieces \in Templates, sp \in AttrSpans}
    /\ last = NoCall
    /\ rendered = <<>>
    /\ nOps = 0

\* report_fulfillment_errors over unimplemented obligations of Foo
ReportUnimplemented ==
    /\ nOps < MaxOps
    /\ \E error \in HintFailures :
          LET r == report_fulfillment_error(sess, reported_trait_errors, bindings,
                                            tcx, error) IN
          /\ sess' = r.sess
          /\ reported_trait_errors' = r.reported
          /\ rendered' = IF r.dispatched THEN Append(rendered, error) ELSE rendered
          /\ last' = [op |-> "report_fulfillment_error", error |-> error,
                      from |-> Len(sess.diags), errs |-> sess.err_count,
                      dispatched |-> r.dispatched]
    /\ nOps' = nOps + 1
    /\ UNCHANGED <<bindings, tcx>>

NextHint == ReportUnimplemented

SpecHint == InitHint /\ [][NextHint]_vars

(***************************************************************************)
(* The violations of object safety: a third specification, in which trait  *)
(* Obj has any list of at most MaxViolations violations and the failures   *)
(* are the two that lead to report_object_safety_error.                    *)
(***************************************************************************)
ViolationAlphabet ==
    {Violation("SizedSelf", "", ""), Violation("SupertraitSelf", "", ""),
     Violation("Method", "m", "StaticMethod"), Violation("Method", "m", "ReferencesSelf"),
     Violation("Method", "m", "Generic"), Violation("Method", "n", "Generic")}
ViolationLists == UNION {[1..n -> ViolationAlphabet] : n \in 0..MaxViolations}
TcxObj(violations) == [Tcx0 EXCEPT !.violations["Obj"] = violations]
ObjFailures ==
    {NotObjectSafe(Obligation(PTrait("Foo", <<TInt, TInt>>), code, "sp1"), "Obj") :
        code \in {Misc, RFC}}
    \cup {Unimplemented(Obligation(PObjectSafe("Obj"), BuiltinItem, "sp1"))}

InitObj ==
    /\ sess = Sess0(64)
    /\ reported_trait_errors = {}
    /\ bindings = <<>>
    /\ tcx \in {TcxObj(violations) : violations \in ViolationLists}
    /\ last = NoCall
    /\ rendered = <<>>
    /\ nOps = 0

\* report_fulfillment_errors over failures of object safety
ReportNotObjectSafe ==
    /\ nOps < MaxOps
    /\ \E error \in ObjFailures :
          LET r == report_fulfillment_error(sess, reported_trait_errors, bindings,
                                            tcx, error) IN
          /\ sess' = r.sess
          /\ reported_trait_errors' = r.reported
          /\ rendered' = IF r.dispatched THEN Append(rendered, error) ELSE rendered
          /\ last' = [op |-> "report_fulfillment_error", error |-> error,
                      from |-> Len(sess.diags), errs |-> sess.err_count,
                      dispatched |-> r.dispatched]
    /\ nOps' = nOps + 1
    /\ UNCHANGED <<bindings, tcx>>

NextObj == ReportNotObjectSafe

SpecObj == InitObj /\ [][NextObj]_vars

(***************************************************************************)
(* The cause codes: a fourth specification, in which the solver reports an *)
(* overflow for an obligation under any cause code of at most MaxDepth     *)
(* nodes, the codes that carry a further code wrapping a last one that     *)
(* does not.                                                               *)
(***************************************************************************)
WrapperNodes ==
    {Node("RFC1214"),
     Derived("BuiltinDerivedObligation", TInt), Derived("BuiltinDerivedObligation", TVar(1)),
     Derived("ImplDerivedObligation", TInt), Derived("ImplDerivedObligation", TVar(1))}
LeafNodes ==
    {Node("MiscObligation"), Node("ItemObligation"), Node("SliceOrArrayElem"),
     Node("CompareImplMethodObligation")}
CauseCodes ==
    {w \o <<l>> : w \in UNION {[1..n -> WrapperNodes] : n \in 0..(MaxDepth - 1)},
                  l \in LeafNodes}

InitCause ==
    /\ sess = Sess0(64)
    /\ reported_trait_errors = {}
    /\ bindings \in Bindings
    /\ tcx = Tcx0
    /\ last = NoCall
    /\ rendered = <<>>
    /\ nOps = 0

\* The solver calls report_overflow_error, which ends the session
ReportOverflowUnderCause ==
    /\ ~sess.aborted
    /\ nOps < MaxOps
    /\ \E code \in CauseCodes, sp \in Spans :
          LET o == Obligation(PTrait("Sized", <<TVar(1)>>), code, sp) IN
          /\ sess' = report_overflow_error(sess, bindings, o)
          /\ last' = [op |-> "report_overflow_error", error |-> Ambiguity(o),
                      from |-> Len(sess.diags), errs |-> sess.err_count,
                      dispatched |-> FALSE]
    /\ nOps' = nOps + 1
    /\ UNCHANGED <<reported_trait_errors, bindings, tcx, rendered>>

NextCause == ReportOverflowUnderCause

SpecCause == InitCause /\ [][NextCause]_vars

(***************************************************************************)
(* The attribute and the failure around it: a fifth specification, in      *)
(* which trait Foo carries any template, or the attribute without a value, *)
(* and its obligations fail under a cause with notes, under the cause of   *)
(* the comparison of an impl method, and with the error type in them.      *)
(***************************************************************************)
TcxNoValue(sp) ==
    [Tcx0 EXCEPT !.attrs["Foo"] = <<Attr("rustc_on_unimplemented", <<>>, sp)>>]
AttributeFailures ==
    {Unimplemented(Obligation(PTrait("Foo", <<TVec, TInt>>), code, "sp1")) :
        code \in {BuiltinItem, Compare}}
    \cup {Unimplemented(Obligation(PTrait("Foo", <<TInt, TErr>>), BuiltinItem, "sp1"))}

InitAttribute ==
    /\ sess = Sess0(64)
    /\ reported_trait_errors = {}
    /\ bindings = <<>>
    /\ tcx \in {TcxHint(pieces, sp) : pieces \in Templates, sp \in AttrSpans}
              \cup {TcxNoValue(sp) : sp \in AttrSpans}
    /\ last = NoCall
    /\ rendered = <<>>
    /\ nOps = 0

\* report_fulfillment_errors over these failures
ReportUnderAttribute ==
    /\ nOps < MaxOps
    /\ \E error \in AttributeFailures :
          LET r == report_fulfillment_error(sess, reported_trait_errors, bindings,
                                            tcx, error) IN
          /\ sess' = r.sess
          /\ reported_trait_errors' = r.reported
          /\ rendered' = IF r.dispatched THEN Append(rendered, error) ELSE rendered
          /\ last' = [op |-> "report_fulfillment_error", error |-> error,
                      from |-> Len(sess.diags), errs |-> sess.err_count,
                      dispatched |-> r.dispatched]
    /\ nOps' = nOps + 1
    /\ UNCHANGED <<bindings, tcx>>

NextAttribute == ReportUnderAttribute

SpecAttribute == InitAttribute /\ [][NextAttribute]_vars

(***************************************************************************)
(* What the properties below speak of.                                     *)
(***************************************************************************)
\* The diagnostics the last call appended to the session
Out == SubSeq(sess.diags, last.from + 1, Len(sess.diags))
Gated == last.op = "report_fulfillment_error"
LastObligation == last.error.obligation
LastResolved == resolve_type_vars_if_possible(bindings, LastObligation.predicate)
KeyOf(e) == from_error(bindings, e)

\* Two types, or two predicates, that are equal up to their region parameters
SameTyModuloRegions(a, b) == a.c = b.c /\ a.v = b.v
SameModuloRegions(p, q) ==
    /\ p.kind = q.kind
    /\ p.trait = q.trait
    /\ Len(p.tys) = Len(q.tys)
    /\ Len(p.rgns) = Len(q.rgns)
    /\ \A i \in DOMAIN p.tys : SameTyModuloRegions(p.tys[i], q.tys[i])

\* Two failures at one span, with one warning flag, whose predicates differ at most
\* in region parameters once their type variables are resolved
SameLogicalFailure(e, f) ==
    /\ e.obligation.cause.span = f.obligation.cause.span
    /\ is_warning(e.obligation) = is_warning(f.obligation)
    /\ SameModuloRegions(
           resolve_type_vars_if_possible(bindings, e.obligation.predicate),
           resolve_type_vars_if_possible(bindings, f.obligation.predicate))

(***************************************************************************)
(* C1: a failure is handed to a report function only if its key was not in *)
(* reported_trait_errors: no two failures with equal keys are both         *)
(* rendered, and a call that found its key in the set adds no diagnostic.  *)
(***************************************************************************)
C1_RenderedOncePerKey ==
    /\ \A i, j \in DOMAIN rendered :
          i # j => KeyOf(rendered[i]) # KeyOf(rendered[j])
    /\ \A i \in DOMAIN rendered : KeyOf(rendered[i]) \in reported_trait_errors
    /\ (Gated /\ Out # <<>>) =>
          /\ last.dispatched
          /\ rendered # <<>>
          /\ rendered[Len(rendered)] = last.error

\* The same failure came twice: the first was rendered, the second dropped
C1_DuplicateDropped ==
    /\ Gated
    /\ ~last.dispatched
    /\ Out = <<>>
    /\ Len(rendered) = 1
    /\ rendered[1] = last.error
    /\ Len(sess.diags) > 0

(***************************************************************************)
(* C2: failures at one span with one warning flag whose predicates differ  *)
(* only in region parameters, or only in type variables that resolve to    *)
(* the same predicate, have equal keys, and only one of them is rendered.  *)
(***************************************************************************)
C2_KeyIgnoresRegionsAndVariables ==
    /\ \A i \in DOMAIN rendered :
          SameLogicalFailure(last.error, rendered[i])
             => KeyOf(last.error) = KeyOf(rendered[i])
    /\ \A i, j \in DOMAIN rendered :
          i # j => ~SameLogicalFailure(rendered[i], rendered[j])

\* A failure was dropped whose predicate names a variable bound to a reference type
\* and differs in its region from the predicate rendered before
C2_RegionVariantDropped ==
    /\ Gated
    /\ ~last.dispatched
    /\ Len(rendered) = 1
    /\ LastObligation.predicate.kind = "Trait"
    /\ rendered[1].obligation.predicate.kind = "Trait"
    /\ LastObligation.predicate.tys[1].c = "var"
    /\ rendered[1].obligation.predicate.tys[1].c = "ref"
    /\ LastResolved.tys[1].c = "ref"
    /\ LastResolved.tys[1].r # rendered[1].obligation.predicate.tys[1].r
    /\ Len(sess.diags) > 0
    /\ Out = <<>>

(***************************************************************************)
(* C3: reported_trait_errors only grows, and every failure that went       *)
(* through report_fulfillment_error has its key in the set afterwards,     *)
(* also when its rendering was suppressed.                                 *)
(***************************************************************************)
C3_KeySetOnlyGrows ==
    [][/\ reported_trait_errors \subseteq reported_trait_errors'
       /\ last'.op = "report_fulfillment_error" =>
             from_error(bindings', last'.error) \in reported_trait_errors']_vars

\* A failure whose rendering was suppressed (a prior error, and an error type in its
\* predicate) has its key in the set
C3_SuppressedKeyRecorded ==
    /\ Gated
    /\ last.dispatched
    /\ Out = <<>>
    /\ last.errs > 0
    /\ last.error.code = "CodeSelectionError"
    /\ references_error(LastResolved.tys)
    /\ KeyOf(last.error) \in reported_trait_errors

(***************************************************************************)
(* Diagnostics by role.                                                    *)
(***************************************************************************)
PrimaryCodes == {"E0038", "E0271", "E0276", "E0277", "E0278", "E0279", "E0280",
                 "E0281", "E0282", "E0283", "E0284"}
AuthoringCodes == {"E0272", "E0273", "E0274"}
IsPrimary(d) == d.sev \in {"error", "warning"} /\ d.code \in PrimaryCodes
Primaries == SelectSeq(Out, IsPrimary)
ContainsRFC1214(code) == \E i \in DOMAIN code : code[i].tag = "RFC1214"
IsNoteworthy(n) == n.tag # "MiscObligation"

\* The notes of the cause chain of an obligation: one per code of the chain that is
\* not MiscObligation, outermost first
ExpectedCauseNotes(o) ==
    LET ns == SelectSeq(o.cause.code, IsNoteworthy) IN
    [i \in 1..Len(ns) |->
        Diag("note",
             IF ns[i].tag = "RFC1214" THEN "note_rfc_1214" ELSE ns[i].tag,
             o.cause.span,
             IF ns[i].tag \in {"BuiltinDerivedObligation", "ImplDerivedObligation"}
             THEN TyStr(resolve_ty(bindings, ns[i].ty)) ELSE "",
             0)]

\* The output ends with the notes of the cause chain
EndsWithCauseNotes ==
    LET exp == ExpectedCauseNotes(LastObligation) IN
    /\ Len(Out) >= Len(exp)
    /\ SubSeq(Out, Len(Out) - Len(exp) + 1, Len(Out)) = exp

PriorError == last.errs > 0
IsUnimplemented ==
    last.error.code = "CodeSelectionError" /\ last.error.sel.kind = "Unimplemented"
IsCompareCause == LastObligation.cause.code[1].tag = "CompareImplMethodObligation"

(***************************************************************************)
(* C4 as stated: every primary diagnostic of a failure is a warning iff    *)
(* the cause chain of its obligation contains RFC1214, for selection,      *)
(* projection and ambiguity failures alike.                                *)
(***************************************************************************)
C4_SeverityFollowsRFC1214 ==
    Gated =>
       \A i \in DOMAIN Out :
          IsPrimary(Out[i]) =>
             (Out[i].sev = "warning" <=> ContainsRFC1214(LastObligation.cause.code))

(***************************************************************************)
(* C4 as amended: the primary diagnostic of a selection or projection      *)
(* failure is a warning iff the cause chain contains RFC1214; the primary  *)
(* diagnostic of an ambiguity failure is always an error.                  *)
(***************************************************************************)
C4_SeverityOfSelectionAndProjection ==
    Gated =>
       \A i \in DOMAIN Out :
          IsPrimary(Out[i]) =>
             IF last.error.code = "CodeAmbiguity"
             THEN Out[i].sev = "error"
             ELSE Out[i].sev = "warning" <=> ContainsRFC1214(LastObligation.cause.code)

\* An ambiguity failure under an RFC1214 cause was reported as an error
C4_AmbiguityUnderRFC1214IsError ==
    /\ Gated
    /\ last.error.code = "CodeAmbiguity"
    /\ ContainsRFC1214(LastObligation.cause.code)
    /\ Len(Primaries) = 1
    /\ Primaries[1].sev = "error"

(***************************************************************************)
(* C5: report_overflow_error emits, in every session state, the overflow   *)
(* error, the note that suggests twice the current recursion limit, then   *)
(* the notes of the cause chain, and aborts.                               *)
(***************************************************************************)
C5_OverflowAlwaysFires ==
    last.op = "report_overflow_error" =>
       /\ sess.aborted
       /\ Len(Out) >= 2
       /\ Out[1] = Diag("error", "E0275", LastObligation.cause.span, "", 0)
       /\ Out[2] = Diag("note", "recursion_limit", LastObligation.cause.span, "",
                        2 * sess.recursion_limit)
       /\ SubSeq(Out, 3, Len(Out)) = ExpectedCauseNotes(LastObligation)

\* An overflow was reported in a session that already had errors
C5_OverflowAfterErrors ==
    /\ last.op = "report_overflow_error"
    /\ PriorError
    /\ sess.aborted
    /\ Len(Out) >= 4

(***************************************************************************)
(* The cases in which a failure is rendered without a primary diagnostic.  *)
(***************************************************************************)
SuppressionCase ==
    CASE IsUnimplemented ->
           /\ ~IsCompareCause
           /\ LastResolved.kind = "Trait"
           /\ PriorError
           /\ references_error(LastResolved.tys)
      [] last.error.sel.kind = "OutputTypeParameterMismatch" ->
           resolve_ty(bindings, last.error.sel.actual).c = "err"
      [] last.error.code = "CodeProjectionError" ->
           PriorError /\ references_error(LastResolved.tys)
      [] last.error.code = "CodeAmbiguity" ->
           \/ PriorError
           \/ LastResolved.kind \in {"Trait", "WellFormed"}
                /\ references_error(LastResolved.tys)
      [] OTHER -> FALSE

\* The two states the solver promises never to produce
InternalError ==
    \/ IsUnimplemented /\ ~IsCompareCause /\ LastResolved.kind = "WellFormed"
    \/ /\ last.error.code = "CodeAmbiguity"
       /\ LastResolved.kind = "Trait"
       /\ ~PriorError
       /\ ~references_error(LastResolved.tys)
       /\ ~needs_infer(LastResolved.tys)

Rendered == Gated /\ last.dispatched /\ ~InternalError

(***************************************************************************)
(* C6 as stated: a rendered failure has exactly one primary diagnostic     *)
(* outside the suppression cases, and every primary diagnostic, E0276 and  *)
(* E0282 included, is followed by the notes of the cause chain.            *)
(***************************************************************************)
C6_PrimaryThenCauseChain ==
    Rendered =>
       /\ Len(Primaries) = (IF SuppressionCase THEN 0 ELSE 1)
       /\ Len(Primaries) = 1 => Out[1] = Primaries[1] /\ EndsWithCauseNotes

(***************************************************************************)
(* C6 as amended: a rendered failure has exactly one primary diagnostic    *)
(* outside the suppression cases; every primary diagnostic other than      *)
(* E0276 (impl method against trait method) and E0282 (need type           *)
(* annotation) is followed by the notes of the cause chain, and those two  *)
(* are the whole output of their failures.                                 *)
(***************************************************************************)
C6_PrimaryThenCauseChainButTwo ==
    Rendered =>
       /\ Len(Primaries) = (IF SuppressionCase THEN 0 ELSE 1)
       /\ Len(Primaries) = 0 => Out = <<>>
       /\ Len(Primaries) = 1 =>
             /\ Out[1] = Primaries[1]
             /\ IF Out[1].code \in {"E0276", "E0282"}
                THEN Len(Out) = 1
                ELSE EndsWithCauseNotes

\* E0282 was reported for an obligation whose cause chain has notes, without them
C6_NeedTypeInfoWithoutNotes ==
    /\ Rendered
    /\ Out # <<>>
    /\ Out[1].code = "E0282"
    /\ ExpectedCauseNotes(LastObligation) # <<>>
    /\ Len(Out) = 1

(***************************************************************************)
(* The output of a general trait-implemented failure that is rendered: the *)
(* E0277 message, then the errors of the trait's attribute if any, then    *)
(* the custom note if one was rendered, then the notes of the cause chain. *)
(***************************************************************************)
GeneralTraitFailure ==
    /\ Gated
    /\ last.dispatched
    /\ IsUnimplemented
    /\ ~IsCompareCause
    /\ LastObligation.predicate.kind = "Trait"

E0277Shape ==
    LET exp == ExpectedCauseNotes(LastObligation) IN
    LET rest == SubSeq(Out, 2, Len(Out)) IN
    /\ Out[1].code = "E0277"
    /\ Out[1].sev \in {"error", "warning"}
    /\ Out[1].span = LastObligation.cause.span
    /\ \E k \in 0..Len(rest) :
          LET tail == SubSeq(rest, k + 1, Len(rest)) IN
          /\ \A i \in 1..k : rest[i].code \in AuthoringCodes /\ rest[i].sev = "error"
          /\ \/ tail = exp
             \/ /\ k = 0
                /\ tail # <<>>
                /\ tail[1].sev = "note"
                /\ tail[1].code = "custom"
                /\ SubSeq(tail, 2, Len(tail)) = exp

(***************************************************************************)
(* C7 as stated: a general trait-implemented failure has no output iff the *)
(* session had an error and the self type contains the error type;         *)
(* otherwise E0277, the custom note if any, the notes of the cause chain.  *)
(***************************************************************************)
C7_SuppressedIffSelfTypeError ==
    GeneralTraitFailure =>
       /\ Out = <<>> <=> (PriorError /\ self_ty(LastResolved).c = "err")
       /\ Out # <<>> => E0277Shape

(***************************************************************************)
(* C7 as amended: no output iff the session had an error and the resolved  *)
(* trait predicate contains the error type in its self type or in one of   *)
(* its type arguments; otherwise as stated.                                *)
(***************************************************************************)
C7_SuppressedIffPredicateError ==
    GeneralTraitFailure =>
       /\ Out = <<>> <=>
             (PriorError /\ \E i \in DOMAIN LastResolved.tys : LastResolved.tys[i].c = "err")
       /\ Out # <<>> => E0277Shape

\* Suppressed for the error type in a type argument, the self type being free of it
C7_SuppressedForArgument ==
    /\ GeneralTraitFailure
    /\ PriorError
    /\ self_ty(LastResolved).c # "err"
    /\ Len(LastResolved.tys) = 2
    /\ LastResolved.tys[2].c = "err"
    /\ Out = <<>>

(***************************************************************************)
(* C8: an ambiguity failure adds no diagnostic and no note once the        *)
(* session has an error, whatever its predicate, errors of earlier         *)
(* failures included.                                                      *)
(***************************************************************************)
C8_AmbiguitySilentAfterError ==
    (/\ Gated
     /\ last.error.code = "CodeAmbiguity"
     /\ \/ PriorError
        \/ \E i \in 1..last.from : sess.diags[i].sev = "error")
    => Out = <<>> /\ ~sess.aborted

\* An ambiguity failure with an unresolved variable, which would be reported in a
\* session without errors, stayed silent after the error of an earlier failure
C8_SilentAfterEarlierFailure ==
    /\ Gated
    /\ last.dispatched
    /\ last.error.code = "CodeAmbiguity"
    /\ \E i \in 1..last.from : sess.diags[i].sev = "error"
    /\ Len(rendered) = 2
    /\ needs_infer(LastResolved.tys)
    /\ ~references_error(LastResolved.tys)
    /\ Out = <<>>

(***************************************************************************)
(* The template of the trait of the last failure, its environment, and the *)
(* text it stands for.                                                     *)
(***************************************************************************)
IsHintAttr(a) == a.name = "rustc_on_unimplemented"
HintAttrs == SelectSeq(tcx.attrs[LastResolved.trait], IsHintAttr)
HasTemplate == HintAttrs # <<>> /\ HintAttrs[1].value # <<>>
Template == HintAttrs[1].value[1]
TemplateSpan ==
    IF HintAttrs[1].span = "dummy" THEN LastObligation.cause.span ELSE HintAttrs[1].span
ParamNames == tcx.generics[LastResolved.trait]
EnvNames == {ParamNames[i] : i \in DOMAIN ParamNames} \cup {"Self"}
EnvValue(nm) ==
    IF nm = "Self" THEN TyStr(LastResolved.tys[1])
    ELSE TyStr(LastResolved.tys[CHOOSE i \in DOMAIN ParamNames : ParamNames[i] = nm])
IsBadPiece(p) ==
    p.kind # "String" /\ ~(p.kind = "ArgumentNamed" /\ p.s \in EnvNames)
BadPieces == SelectSeq(Template, IsBadPiece)
RECURSIVE Substituted(_)
Substituted(pieces) ==
    IF pieces = <<>> THEN ""
    ELSE (IF Head(pieces).kind = "String" THEN Head(pieces).s ELSE EnvValue(Head(pieces).s))
         \o Substituted(Tail(pieces))
IsAuthoringError(d) == d.code \in AuthoringCodes
IsCustomNote(d) == d.code = "custom"

\* The last failure was rendered as E0277 for a trait that carries a template
HintCall == GeneralTraitFailure /\ Out # <<>> /\ HasTemplate

(***************************************************************************)
(* C9: a template whose placeholders are all named and bound in the        *)
(* environment (the parameters of the trait and Self) yields, as the       *)
(* custom note, its text with every placeholder replaced by the bound      *)
(* value in template order, and no authoring error; "{Self} does not       *)
(* implement Foo<{T}>" for Vec<i32> and i32 yields "Vec<i32> does not      *)
(* implement Foo<i32>".                                                    *)
(***************************************************************************)
C9_TemplateRoundTrip ==
    (HintCall /\ BadPieces = <<>>) =>
       /\ Len(Out) >= 2
       /\ Out[2] = Diag("note", "custom", LastObligation.cause.span,
                        Substituted(Template), 0)
       /\ SelectSeq(Out, IsAuthoringError) = <<>>
       /\ Len(SelectSeq(Out, IsCustomNote)) = 1
       /\ (Template = FooTemplate /\ LastResolved.tys = <<TVec, TInt>>)
             => Out[2].text = "Vec<i32> does not implement Foo<i32>"

\* The template of the example was rendered for Vec<i32> and i32
C9_ExampleRendered ==
    /\ HintCall
    /\ Template = FooTemplate
    /\ LastResolved.tys = <<TVec, TInt>>
    /\ Out[2].code = "custom"
    /\ Out[2].text = "Vec<i32> does not implement Foo<i32>"

(***************************************************************************)
(* C10: a template with at least one named placeholder that is not bound   *)
(* or at least one positional placeholder yields no custom note, and one   *)
(* authoring error for each such placeholder, in template order: E0272     *)
(* citing the name, E0273 for a positional one.                            *)
(***************************************************************************)
C10_EveryBadPlaceholderReported ==
    (HintCall /\ BadPieces # <<>>) =>
       /\ SelectSeq(Out, IsCustomNote) = <<>>
       /\ SelectSeq(Out, IsAuthoringError) =
             [i \in 1..Len(BadPieces) |->
                 IF BadPieces[i].kind = "ArgumentNamed"
                 THEN Diag("error", "E0272", TemplateSpan, BadPieces[i].s, 0)
                 ELSE Diag("error", "E0273", TemplateSpan, LastResolved.trait, 0)]

\* A template with a bad placeholder, then a good piece, then another bad one
C10_TwoBadPlaceholders ==
    /\ HintCall
    /\ Len(Template) = 3
    /\ IsBadPiece(Template[1])
    /\ ~IsBadPiece(Template[2])
    /\ IsBadPiece(Template[3])
    /\ Len(SelectSeq(Out, IsAuthoringError)) = 2
    /\ SelectSeq(Out, IsCustomNote) = <<>>

(***************************************************************************)
(* The violations of the trait of the last failure, when it is a failure   *)
(* of object safety, and their first occurrences in order.                 *)
(***************************************************************************)
IsObjectSafetyFailure ==
    /\ Gated
    /\ last.dispatched
    /\ last.error.code = "CodeSelectionError"
    /\ \/ last.error.sel.kind = "TraitNotObjectSafe"
       \/ IsUnimplemented /\ ~IsCompareCause /\ LastObligation.predicate.kind = "ObjectSafe"
UnsafeTrait ==
    IF last.error.sel.kind = "TraitNotObjectSafe" THEN last.error.sel.did
    ELSE LastObligation.predicate.trait
LastViolations == tcx.violations[UnsafeTrait]
RECURSIVE FirstOccurrences(_)
FirstOccurrences(vs) ==
    IF vs = <<>> THEN <<>>
    ELSE LET front == SubSeq(vs, 1, Len(vs) - 1) IN
         IF \E j \in DOMAIN front : front[j] = vs[Len(vs)]
         THEN FirstOccurrences(front)
         ELSE Append(FirstOccurrences(front), vs[Len(vs)])
IsViolationNote(d) == d.code = "violation"
ViolationNotes == SelectSeq(Out, IsViolationNote)

(***************************************************************************)
(* C11: report_object_safety_error emits the E0038 message first, then one *)
(* note for each distinct violation of the list, in the order of first     *)
(* occurrence, the text of a note being that of the kind and method name   *)
(* of its violation; [Method(m, generic), Method(m, generic), SizedSelf]   *)
(* gives exactly 2 notes.                                                  *)
(***************************************************************************)
C11_OneNotePerDistinctViolation ==
    IsObjectSafetyFailure =>
       LET first == FirstOccurrences(LastViolations) IN
       /\ Out # <<>>
       /\ Out[1].code = "E0038"
       /\ Out[1].sev \in {"error", "warning"}
       /\ Len(Out) >= 1 + Len(first)
       /\ \A i \in 1..Len(first) :
             Out[1 + i] = Diag("note", "violation", LastObligation.cause.span,
                               violation_note(first[i]), 0)
       /\ Len(ViolationNotes) = Len(first)
       /\ \A i, j \in 1..Len(first) :
             (first[i].kind = first[j].kind /\ first[i].code = first[j].code
                /\ first[i].method = first[j].method) => i = j
       /\ LastViolations = <<Violation("Method", "m", "Generic"),
                             Violation("Method", "m", "Generic"),
                             Violation("SizedSelf", "", "")>>
             => Len(ViolationNotes) = 2

\* The list of the example was rendered as two notes after the E0038 message
C11_ExampleTwoNotes ==
    /\ IsObjectSafetyFailure
    /\ LastViolations = <<Violation("Method", "m", "Generic"),
                          Violation("Method", "m", "Generic"),
                          Violation("SizedSelf", "", "")>>
    /\ Out[1].code = "E0038"
    /\ Len(ViolationNotes) = 2
    /\ Out[2].text = "method 'm' has generic type parameters"
    /\ Out[3].text = "the trait cannot require that 'Self : Sized'"

(***************************************************************************)
(* The notes of the cause code in the output of report_overflow_error:     *)
(* what follows the E0275 message and the note on the recursion limit.     *)
(***************************************************************************)
OverflowCauseNotes == SubSeq(Out, 3, Len(Out))
LastCode == LastObligation.cause.code
CodeOfNote(n) == IF n.tag = "RFC1214" THEN "note_rfc_1214" ELSE n.tag

(***************************************************************************)
(* C12 as stated: a cause code of N nodes, the last one included, is       *)
(* rendered as exactly N notes, the i-th note being that of the i-th node. *)
(***************************************************************************)
C12_DepthNGivesNNotes ==
    last.op = "report_overflow_error" =>
       /\ Len(OverflowCauseNotes) = Len(LastCode)
       /\ \A i \in DOMAIN OverflowCauseNotes :
             OverflowCauseNotes[i].code = CodeOfNote(LastCode[i])

(***************************************************************************)
(* C12 as amended: a cause code of N nodes is rendered as one note for     *)
(* each node that is not MiscObligation, outermost first, each node once:  *)
(* N notes when the last node has a note of its own, N - 1 notes when the  *)
(* last node is MiscObligation.                                            *)
(***************************************************************************)
C12_OneNotePerNodeButMisc ==
    last.op = "report_overflow_error" =>
       LET N == Len(LastCode) IN
       LET notes == OverflowCauseNotes IN
       /\ Len(notes) = (IF LastCode[N].tag = "MiscObligation" THEN N - 1 ELSE N)
       /\ \A i \in DOMAIN notes :
             /\ notes[i].sev = "note"
             /\ notes[i].code = CodeOfNote(LastCode[i])
             /\ notes[i].span = LastObligation.cause.span
             /\ LastCode[i].tag \in {"BuiltinDerivedObligation", "ImplDerivedObligation"}
                   => notes[i].text = TyStr(resolve_ty(bindings, LastCode[i].ty))

\* Two ImplDerivedObligation codes around MiscObligation gave two notes
C12_TwoDerivedAroundMisc ==
    /\ last.op = "report_overflow_error"
    /\ Len(LastCode) = 3
    /\ LastCode[1].tag = "ImplDerivedObligation"
    /\ LastCode[2].tag = "ImplDerivedObligation"
    /\ LastCode[3].tag = "MiscObligation"
    /\ Len(OverflowCauseNotes) = 2
    /\ OverflowCauseNotes[1].code = "ImplDerivedObligation"
    /\ OverflowCauseNotes[2].code = "ImplDerivedObligation"

(***************************************************************************)
(* The authoring errors the attribute of the trait of the last failure     *)
(* calls for: E0274 when it has no value, else one for each bad piece.     *)
(***************************************************************************)
HasHintAttr == HintAttrs # <<>>
ExpectedAuthoringErrors ==
    IF HintAttrs[1].value = <<>>
    THEN <<Diag("error", "E0274", TemplateSpan, LastResolved.trait, 0)>>
    ELSE [i \in 1..Len(BadPieces) |->
             IF BadPieces[i].kind = "ArgumentNamed"
             THEN Diag("error", "E0272", TemplateSpan, BadPieces[i].s, 0)
             ELSE Diag("error", "E0273", TemplateSpan, LastResolved.trait, 0)]
CascadeSuppressed == PriorError /\ references_error(LastResolved.tys)

(***************************************************************************)
(* C13: an authoring error of the attribute (a placeholder that is not     *)
(* bound, a positional placeholder, no value) does not suppress the        *)
(* failure: the E0277 message comes first, each authoring error is         *)
(* reported once, there is no custom note, and the notes of the cause      *)
(* chain end the output.  A failure that is not a general trait failure,   *)
(* the impl-method comparison included, has neither custom note nor        *)
(* authoring error.                                                        *)
(***************************************************************************)
C13_AuthoringErrorKeepsPrimary ==
    /\ (GeneralTraitFailure /\ HasHintAttr /\ ExpectedAuthoringErrors # <<>>
          /\ ~CascadeSuppressed) =>
          /\ Out # <<>>
          /\ Out[1].code = "E0277"
          /\ Out[1].sev \in {"error", "warning"}
          /\ Len(Primaries) = 1
          /\ SelectSeq(Out, IsAuthoringError) = ExpectedAuthoringErrors
          /\ SelectSeq(Out, IsCustomNote) = <<>>
          /\ EndsWithCauseNotes
          /\ Len(Out) = 1 + Len(ExpectedAuthoringErrors)
                          + Len(ExpectedCauseNotes(LastObligation))
    /\ (Gated /\ ~GeneralTraitFailure) =>
          /\ SelectSeq(Out, IsAuthoringError) = <<>>
          /\ SelectSeq(Out, IsCustomNote) = <<>>

\* The attribute without a value: E0277, then E0274, then the notes of the cause
C13_NoValueKeepsPrimary ==
    /\ GeneralTraitFailure
    /\ HasHintAttr
    /\ HintAttrs[1].value = <<>>
    /\ ExpectedCauseNotes(LastObligation) # <<>>
    /\ Len(Out) = 2 + Len(ExpectedCauseNotes(LastObligation))
    /\ Out[1].code = "E0277"
    /\ Out[2].code = "E0274"
    /\ Out[3].sev = "note"

(***************************************************************************)
(* The two states the solver promises never to produce, and the output of  *)
(* span_bug.                                                               *)
(***************************************************************************)
UnimplementedWellFormed ==
    /\ Gated
    /\ last.dispatched
    /\ IsUnimplemented
    /\ LastObligation.predicate.kind = "WellFormed"
ResolvedTraitAmbiguity ==
    /\ Gated
    /\ last.dispatched
    /\ last.error.code = "CodeAmbiguity"
    /\ LastResolved.kind = "Trait"
    /\ ~references_error(LastResolved.tys)
    /\ ~needs_infer(LastResolved.tys)
IsBug(d) == d.sev = "bug"
AbortedWithBug ==
    /\ sess.aborted
    /\ Len(Out) = 1
    /\ Out[1].sev = "bug"
    /\ Out[1].span = LastObligation.cause.span

(***************************************************************************)
(* C14 as stated: an unimplemented failure of a well-formedness predicate  *)
(* aborts with a bug diagnostic, whatever its cause; an ambiguity failure  *)
(* of a trait predicate that is resolved and free of errors aborts with a  *)
(* bug diagnostic when the session has no error, and is silent, without    *)
(* abort, when it has one.                                                 *)
(***************************************************************************)
C14_ImpossibleStatesAbort ==
    /\ UnimplementedWellFormed => AbortedWithBug
    /\ (ResolvedTraitAmbiguity /\ ~PriorError) => AbortedWithBug
    /\ (ResolvedTraitAmbiguity /\ PriorError) => (Out = <<>> /\ ~sess.aborted)

(***************************************************************************)
(* C14 as amended: as stated, but for the unimplemented failure of a       *)
(* well-formedness predicate only when its cause is not the comparison of  *)
(* an impl method with its trait method; under that cause the E0276        *)
(* message is emitted and nothing aborts.  No other failure ends in a bug  *)
(* diagnostic.                                                             *)
(***************************************************************************)
C14_ImpossibleStatesAbortButCompare ==
    /\ (UnimplementedWellFormed /\ ~IsCompareCause) => AbortedWithBug
    /\ (UnimplementedWellFormed /\ IsCompareCause) =>
          /\ ~sess.aborted
          /\ Len(Out) = 1
          /\ Out[1].code = "E0276"
          /\ Out[1].sev \in {"error", "warning"}
    /\ (ResolvedTraitAmbiguity /\ ~PriorError) => AbortedWithBug
    /\ (ResolvedTraitAmbiguity /\ PriorError) => (Out = <<>> /\ ~sess.aborted)
    /\ (Gated /\ SelectSeq(Out, IsBug) # <<>>) =>
          \/ UnimplementedWellFormed /\ ~IsCompareCause
          \/ ResolvedTraitAmbiguity /\ ~PriorError

\* A resolved trait predicate came back ambiguous in a session with an error: silence
C14_ResolvedAmbiguityAfterError ==
    /\ ResolvedTraitAmbiguity
    /\ PriorError
    /\ Out = <<>>
    /\ ~sess.aborted

(***************************************************************************)
(* The three fields of the key, compared one by one, and the failures      *)
(* rendered before the last call.                                          *)
(***************************************************************************)
SameKeyFields(e, f) ==
    /\ ContainsRFC1214(e.obligation.cause.code) = ContainsRFC1214(f.obligation.cause.code)
    /\ e.obligation.cause.span = f.obligation.cause.span
    /\ erase_regions(resolve_type_vars_if_possible(bindings, e.obligation.predicate))
          = erase_regions(resolve_type_vars_if_possible(bindings, f.obligation.predicate))
RenderedBefore ==
    SubSeq(rendered, 1, Len(rendered) - (IF last.dispatched THEN 1 ELSE 0))

(***************************************************************************)
(* C15: a failure is dropped by the gate, without output, exactly when an  *)
(* earlier failure of the session had the same warning flag, span and      *)
(* normalized predicate, whatever the kinds of the two failures and        *)
(* whether or not the earlier one produced output; so failures that differ *)
(* in the warning flag only are both handed to a report function.          *)
(***************************************************************************)
C15_KeyIgnoresKindAndOutput ==
    Gated =>
       /\ last.dispatched <=>
             ~\E i \in DOMAIN RenderedBefore : SameKeyFields(RenderedBefore[i], last.error)
       /\ ~last.dispatched => Out = <<>>

\* A selection failure that would have been reported was dropped after an ambiguity
\* failure with its key that was rendered without output: the session has no
\* diagnostic at all
C15_SelectionLostToSilentAmbiguity ==
    /\ Gated
    /\ ~last.dispatched
    /\ last.error.code = "CodeSelectionError"
    /\ Len(rendered) = 1
    /\ rendered[1].code = "CodeAmbiguity"
    /\ SameKeyFields(rendered[1], last.error)
    /\ sess.diags = <<>>
    /\ dispatch(sess, bindings, tcx, last.error).diags # <<>>

====
